---- MODULE Spec2Model ----
(***************************************************************************)
(* A model of package logger of go-sdk: the AuditEvent type with its       *)
(* mutators, text and JSON renderers (logger/audit_event.go), the typed    *)
(* listener adapter, and the rendering helpers for headers, labels and     *)
(* HTTP request/response lines (logger/write_helpers.go).                  *)
(*                                                                         *)
(* A Go string is a sequence of bytes, so strings are modelled as tuples   *)
(* of byte values (0..255); every literal carries its text in a comment.   *)
(***************************************************************************)
EXTENDS Integers, Sequences, FiniteSets, TLC

VARIABLES
    fmtCall,    \* FormatHeaders / FormatLabels: the arguments of the call
    fmtKeys,    \* ... the local `keys` after sort.Strings
    fmtValues,  \* ... the local `values` (one token per key)
    fmtRets,    \* ... the set of strings returned so far for fmtCall
    fmtOrder,   \* ... the map iteration order the last call saw
    fmtReordered, \* ... whether two of those calls saw different orders
    wrCall,     \* WriteText / WriteHTTP*: the arguments of the call
    wrCalls,    \* the strings handed to io.WriteString, in call order
    wrErrs,     \* the indices of wrCalls whose write returned an error
    wrRet,      \* how the call ended: "running", "returned", "panic", "error"
    ev,         \* the heap: address -> AuditEvent
    ret,        \* the pointer returned by the last With* call (0: none yet)
    hist,       \* ghost: the last argument given for each field of event 1
    jsonOut,    \* what MarshalJSON returned, if it was the last call on the event
    delivered,  \* the events delivered to the typed listener, in order
    cbCalls,    \* the invocations of the wrapped callback, in order
    rCall,      \* JSONResult.Render: the JSONResult of the call
    rLog,       \* the calls made on the response writer, in order
    rStatus,    \* the response writer's status code (0: not set)
    rBody,      \* the bytes written to the response writer's buffer
    rRet        \* the result of Render: "running", "nil", "error"

fmtVars == <<fmtCall, fmtKeys, fmtValues, fmtRets, fmtOrder, fmtReordered>>
wrVars == <<wrCall, wrCalls, wrErrs, wrRet>>
evVars == <<ev, ret, hist, jsonOut>>
lsVars == <<delivered, cbCalls>>
rVars == <<rCall, rLog, rStatus, rBody, rRet>>
vars == <<fmtVars, wrVars, evVars, lsVars, rVars>>

(***************************************************************************)
(* Strings                                                                 *)
(***************************************************************************)
Empty == <<>>

\* const Space = " "
Space == <<32>>

Colon == <<58>>

Equals == <<61>>

\* Go's string comparison: bytewise lexicographic, a proper prefix first.
StrLess(a, b) ==
    \E i \in 1..(Len(b)) :
        /\ \A j \in 1..(i - 1) : j <= Len(a) /\ a[j] = b[j]
        /\ (i > Len(a) \/ (i <= Len(a) /\ a[i] < b[i]))
        /\ i - 1 <= Len(a)

RECURSIVE Flatten(_)
\* the concatenation of a sequence of strings
Flatten(ss) == IF ss = <<>> THEN <<>> ELSE Head(ss) \o Flatten(Tail(ss))

RECURSIVE Join(_, _)
\* strings.Join(elems, sep)
Join(elems, sep) ==
    IF elems = <<>> THEN <<>>
    ELSE IF Len(elems) = 1 THEN elems[1]
    ELSE elems[1] \o sep \o Join(Tail(elems), sep)

RECURSIVE Orders(_)
\* every sequence enumerating the set S once: the orders in which a Go
\* `range` over a map with key set S may visit the keys
Orders(S) ==
    IF S = {} THEN { << >> }
    ELSE UNION { { << k >> \o o : o \in Orders(S \ {k}) } : k \in S }

(***************************************************************************)
(* TextFormatter and ansi colours                                          *)
(***************************************************************************)
\* ansi.ColorGray: ESC [ 9 0 m
ColorGray == <<27, 91, 57, 48, 109>>

\* ansi.ColorBlue: ESC [ 9 4 m
ColorBlue == <<27, 91, 57, 52, 109>>

\* ansi.ColorGreen: ESC [ 3 2 m
ColorGreen == <<27, 91, 51, 50, 109>>

\* ansi.ColorYellow: ESC [ 3 3 m
ColorYellow == <<27, 91, 51, 51, 109>>

\* ansi.ColorRed: ESC [ 3 1 m
ColorRed == <<27, 91, 51, 49, 109>>

\* ansi.ColorReset: ESC [ 0 m
ColorReset == <<27, 91, 48, 109>>

\* a TextFormatter is fixed at construction to colour or not to colour
TextFormatters == { [color |-> FALSE], [color |-> TRUE] }

\* tf.Colorize(text, color)
Colorize(tf, text, color) ==
    IF tf.color THEN color \o text \o ColorReset ELSE text

(***************************************************************************)
(* FormatHeaders and FormatLabels (write_helpers.go)                       *)
(***************************************************************************)
MaxKeys == 3

\* "A", "Ab", "a", "b-c"
KeyPool == { <<65>>, <<65, 98>>, <<97>>, <<98, 45, 99>> }

\* the value lists of an http.Header entry, of the values "v" and "w": one
\* value, or several
ValueLists == { <<<<118>>>>, <<<<118>>, <<119>>>>, <<<<119>>, <<118>>>> }

KeySets == { K \in SUBSET KeyPool : Cardinality(K) <= MaxKeys }

\* http.Header: map[string][]string
Headers == UNION { [K -> ValueLists] : K \in KeySets }

\* Labels: map[string]string
LabelMaps == UNION { [K -> {Empty, <<118>>}] : K \in KeySets }

IsUpper(c) == c >= 65 /\ c <= 90

IsLower(c) == c >= 97 /\ c <= 122

IsDigit(c) == c >= 48 /\ c <= 57

\* the bytes a header field name may hold (letters, digits, '-' here)
ValidHeaderFieldByte(c) == IsUpper(c) \/ IsLower(c) \/ IsDigit(c) \/ c = 45

\* textproto.CanonicalMIMEHeaderKey: the first letter and every letter after
\* a '-' in upper case, the rest in lower case; a key holding a byte that is
\* not a field-name byte is returned as it is
CanonicalMIMEHeaderKey(s) ==
    IF \E i \in 1..Len(s) : ~ValidHeaderFieldByte(s[i]) THEN s
    ELSE [ i \in 1..Len(s) |->
            IF i = 1 \/ s[i - 1] = 45
            THEN (IF IsLower(s[i]) THEN s[i] - 32 ELSE s[i])
            ELSE (IF IsUpper(s[i]) THEN s[i] + 32 ELSE s[i]) ]

\* header.Get(key): the first value stored under the canonical form of key,
\* "" when there is none
HeaderGet(header, key) ==
    LET c == CanonicalMIMEHeaderKey(key)
    IN  IF c \in DOMAIN header /\ Len(header[c]) > 0 THEN header[c][1] ELSE Empty

RECURSIVE InsertString(_, _)
InsertString(sorted, s) ==
    IF sorted = <<>> THEN <<s>>
    ELSE IF StrLess(s, Head(sorted)) THEN <<s>> \o sorted
    ELSE <<Head(sorted)>> \o InsertString(Tail(sorted), s)

RECURSIVE InsertionSort(_)
InsertionSort(keys) ==
    IF keys = <<>> THEN <<>>
    ELSE InsertString(InsertionSort(Tail(keys)), Head(keys))

\* a sort that leaves the keys in the order the map iteration gave
SortStringsSkipped(keys) == keys

RECURSIVE ReverseSeq(_)
ReverseSeq(s) == IF s = <<>> THEN <<>> ELSE ReverseSeq(Tail(s)) \o <<Head(s)>>

\* a sort into decreasing order
SortStringsDescending(keys) == ReverseSeq(InsertionSort(keys))

\* sort.Strings(keys): keys in increasing order
SortStrings(keys) == InsertionSort(keys)

\* fmt.Sprintf("%s:%s", tf.Colorize(key, keyColor), header.Get(key))
HeaderToken(tf, keyColor, header, key) ==
    Colorize(tf, key, keyColor) \o Colon \o HeaderGet(header, key)

\* fmt.Sprintf("%s=%s", tf.Colorize(key, keyColor), labels[key])
LabelToken(tf, keyColor, labels, key) ==
    Colorize(tf, key, keyColor) \o Equals \o labels[key]

\* "{ " and " }"
BraceOpen == <<123, 32>>

BraceClose == <<32, 125>>

\* FormatHeaders(tf, keyColor, header), the range over header visiting the
\* keys in `order`: the locals keys and values, and the string returned
FormatHeaders(tf, keyColor, header, order) ==
    LET keys == SortStrings(order)
        values == [ i \in 1..Len(keys) |-> HeaderToken(tf, keyColor, header, keys[i]) ]
    IN  [ keys |-> keys, values |-> values,
          out |-> BraceOpen \o Join(values, Space) \o BraceClose ]

\* FormatLabels(tf, keyColor, labels), likewise
FormatLabels(tf, keyColor, labels, order) ==
    LET keys == SortStrings(order)
        values == [ i \in 1..Len(keys) |-> LabelToken(tf, keyColor, labels, keys[i]) ]
    IN  [ keys |-> keys, values |-> values, out |-> Join(values, Space) ]

NoCall == [ op |-> "none" ]

\* the formatter and key colour of a call; without colour the key colour
\* is not looked at
FormatterColours ==
    { << [color |-> FALSE], ColorGray >>, << [color |-> TRUE], ColorGray >>,
      << [color |-> TRUE], ColorBlue >> }

FormatCalls ==
    { [ op |-> "FormatHeaders", tf |-> fc[1], keyColor |-> fc[2], m |-> h ] :
        fc \in FormatterColours, h \in Headers } \cup
    { [ op |-> "FormatLabels", tf |-> fc[1], keyColor |-> fc[2], m |-> l ] :
        fc \in FormatterColours, l \in LabelMaps }

\* a caller formats the headers it holds; it may do so again and again
CallFormatHeaders ==
    /\ fmtCall.op = "FormatHeaders"
    /\ \E order \in Orders(DOMAIN fmtCall.m) :
        LET r == FormatHeaders(fmtCall.tf, fmtCall.keyColor, fmtCall.m, order)
        IN  /\ fmtKeys' = r.keys
            /\ fmtValues' = r.values
            /\ fmtRets' = fmtRets \cup {r.out}
            /\ fmtOrder' = order
            /\ fmtReordered' = (fmtReordered \/ (fmtRets # {} /\ order # fmtOrder))
    /\ UNCHANGED <<fmtCall, wrVars, evVars, lsVars, rVars>>

CallFormatLabels ==
    /\ fmtCall.op = "FormatLabels"
    /\ \E order \in Orders(DOMAIN fmtCall.m) :
        LET r == FormatLabels(fmtCall.tf, fmtCall.keyColor, fmtCall.m, order)
        IN  /\ fmtKeys' = r.keys
            /\ fmtValues' = r.values
            /\ fmtRets' = fmtRets \cup {r.out}
            /\ fmtOrder' = order
            /\ fmtReordered' = (fmtReordered \/ (fmtRets # {} /\ order # fmtOrder))
    /\ UNCHANGED <<fmtCall, wrVars, evVars, lsVars, rVars>>

FormatIdle ==
    /\ fmtCall = NoCall
    /\ fmtKeys = <<>>
    /\ fmtValues = <<>>
    /\ fmtRets = {}
    /\ fmtOrder = <<>>
    /\ fmtReordered = FALSE

WriteIdle ==
    /\ wrCall = NoCall
    /\ wrCalls = <<>>
    /\ wrErrs = {}
    /\ wrRet = "none"

AuditIdle ==
    /\ ev = <<>>
    /\ ret = 0
    /\ hist = <<>>
    /\ jsonOut = <<>>

ListenerIdle ==
    /\ delivered = <<>>
    /\ cbCalls = <<>>

RenderIdle ==
    /\ rCall = NoCall
    /\ rLog = <<>>
    /\ rStatus = 0
    /\ rBody = <<>>
    /\ rRet = "none"

(***************************************************************************)
(* The formatting helpers, applied to every header and label mapping       *)
(***************************************************************************)
InitFormat ==
    /\ fmtCall \in FormatCalls
    /\ fmtKeys = <<>>
    /\ fmtValues = <<>>
    /\ fmtRets = {}
    /\ fmtOrder = <<>>
    /\ fmtReordered = FALSE
    /\ WriteIdle /\ AuditIdle /\ ListenerIdle /\ RenderIdle

NextFormat == CallFormatHeaders \/ CallFormatLabels

SpecFormat == InitFormat /\ [][NextFormat]_vars

IsPrefix(p, s) == Len(p) <= Len(s) /\ SubSeq(s, 1, Len(p)) = p

StrictlyAscending(keys) ==
    \A i \in 1..(Len(keys) - 1) : StrLess(keys[i], keys[i + 1])

\* the keys of the mapping m in ascending order
AscendingKeys(m) == CHOOSE o \in Orders(DOMAIN m) : StrictlyAscending(o)

\* C1: FormatHeaders returns "{ " + tokens joined by " " + " }" with one
\* "key:value" token per key of the header and the keys strictly ascending,
\* whatever order the map iteration produced them in.
C1_HeadersSortedOnce ==
    (fmtCall.op = "FormatHeaders" /\ fmtRets # {}) =>
        /\ Len(fmtKeys) = Cardinality(DOMAIN fmtCall.m)
        /\ { fmtKeys[i] : i \in 1..Len(fmtKeys) } = DOMAIN fmtCall.m
        /\ StrictlyAscending(fmtKeys)
        /\ Len(fmtValues) = Len(fmtKeys)
        /\ \A i \in 1..Len(fmtKeys) :
            IsPrefix(Colorize(fmtCall.tf, fmtKeys[i], fmtCall.keyColor) \o Colon,
                     fmtValues[i])
        /\ \A r \in fmtRets : r = BraceOpen \o Join(fmtValues, Space) \o BraceClose

\* a header of three keys formatted from an iteration order that is not the
\* ascending one
C1_Witness ==
    /\ fmtCall.op = "FormatHeaders"
    /\ Cardinality(DOMAIN fmtCall.m) = 3
    /\ ~StrictlyAscending(fmtOrder)
    /\ fmtRets # {}

\* C2: FormatLabels returns one string per (formatter, colour, labels),
\* whatever the iteration order: the "key=value" tokens in ascending key
\* order joined by single spaces.
C2_LabelsDeterministic ==
    (fmtCall.op = "FormatLabels") =>
        /\ Cardinality(fmtRets) <= 1
        /\ \A r \in fmtRets :
            LET keys == AscendingKeys(fmtCall.m)
            IN  r = Join([ i \in 1..Len(keys) |->
                            Colorize(fmtCall.tf, keys[i], fmtCall.keyColor)
                                \o Equals \o fmtCall.m[keys[i]] ], Space)

\* the same labels formatted from two different iteration orders
C2_Witness ==
    /\ fmtCall.op = "FormatLabels"
    /\ fmtReordered
    /\ Cardinality(DOMAIN fmtCall.m) >= 2

\* C10: a header key with several values is rendered as one token
\* "key:value" whose value is the first value of that key, one token per key.
C10_FirstValueOfKey ==
    (fmtCall.op = "FormatHeaders" /\ fmtRets # {}) =>
        /\ Len(fmtValues) = Cardinality(DOMAIN fmtCall.m)
        /\ \A i \in 1..Len(fmtKeys) :
            Len(fmtCall.m[fmtKeys[i]]) > 1 =>
                fmtValues[i] = Colorize(fmtCall.tf, fmtKeys[i], fmtCall.keyColor)
                                   \o Colon \o fmtCall.m[fmtKeys[i]][1]

(***************************************************************************)
(* AuditEvent (audit_event.go)                                             *)
(***************************************************************************)
\* "alice"
Alice == <<97, 108, 105, 99, 101>>

\* "login"
Login == <<108, 111, 103, 105, 110>>

\* "x"
StrX == <<120>>

\* a string that is not valid UTF-8: the byte 0xFF followed by "x"
StrBad == <<255, 120>>

\* a nil map[string]string, and the map with the given entries
NilMap == [ isNil |-> TRUE, m |-> <<>> ]

MapOf(f) == [ isNil |-> FALSE, m |-> f ]

\* len(m) of a map
MapLen(mp) == IF mp.isNil THEN 0 ELSE Cardinality(DOMAIN mp.m)

MaxExtra == 2

\* "j", "k", "l"
ExtraKeys == { <<106>>, <<107>>, <<108>> }

ExtraMaps ==
    {NilMap} \cup
    { MapOf([ k \in K |-> <<118>> ]) :
        K \in { S \in SUBSET ExtraKeys : Cardinality(S) <= MaxExtra } }

\* type AuditEvent struct
AuditEvents ==
    [ EventMeta : {<<>>},
      Context : {Empty, StrX},
      Principal : {Empty, Alice, Login},
      Verb : {Empty, Alice, Login},
      Noun : {Empty, StrX},
      Subject : {Empty, StrX},
      Property : {Empty, StrX},
      RemoteAddress : {Empty, StrX},
      UserAgent : {Empty, StrX},
      Extra : ExtraMaps ]

\* "Context:" ... "UA:"
LabelContext == <<67, 111, 110, 116, 101, 120, 116, 58>>

LabelPrincipal == <<80, 114, 105, 110, 99, 105, 112, 97, 108, 58>>

LabelVerb == <<86, 101, 114, 98, 58>>

LabelNoun == <<78, 111, 117, 110, 58>>

LabelSubject == <<83, 117, 98, 106, 101, 99, 116, 58>>

LabelProperty == <<80, 114, 111, 112, 101, 114, 116, 121, 58>>

LabelRemoteAddr == <<82, 101, 109, 111, 116, 101, 32, 65, 100, 100, 114, 58>>

LabelUA == <<85, 65, 58>>

\* a field block that is written even when the field is empty
FieldWritesAlways(tf, label, value) ==
    << Colorize(tf, label, ColorGray), value, Space >>

\* if len(e.F) > 0 { WriteString(Colorize("F:")); WriteString(e.F); WriteString(Space) }
FieldWrites(tf, label, value) ==
    IF Len(value) > 0
    THEN << Colorize(tf, label, ColorGray), value, Space >>
    ELSE << >>

\* if len(e.Extra) > 0 { ... io.WriteString(wr, strings.Join(values, " ")) },
\* the range over e.Extra visiting the keys in `order`
ExtraWrites(tf, extra, order) ==
    IF MapLen(extra) > 0
    THEN LET values == [ i \in 1..Len(order) |->
                          Colorize(tf, order[i] \o Colon, ColorGray) \o extra.m[order[i]] ]
         IN  << Join(values, Space) >>
    ELSE << >>

\* the orders in which a range over the map may visit its keys
MapOrders(mp) == IF mp.isNil THEN { <<>> } ELSE Orders(DOMAIN mp.m)

\* AuditEvent.WriteText: the strings it hands to io.WriteString, in order
WriteText(e, tf, order) ==
    FieldWrites(tf, LabelContext, e.Context)
        \o FieldWrites(tf, LabelPrincipal, e.Principal)
        \o FieldWrites(tf, LabelVerb, e.Verb)
        \o FieldWrites(tf, LabelNoun, e.Noun)
        \o FieldWrites(tf, LabelSubject, e.Subject)
        \o FieldWrites(tf, LabelProperty, e.Property)
        \o FieldWrites(tf, LabelRemoteAddr, e.RemoteAddress)
        \o FieldWrites(tf, LabelUA, e.UserAgent)
        \o ExtraWrites(tf, e.Extra, order)

(***************************************************************************)
(* The destination writer                                                  *)
(***************************************************************************)
MaxFailAt == 3

\* an io.Writer that returns an error on its failAt-th Write (0: never)
Writers == [ failAt : 0..MaxFailAt ]

\* io.WriteString(wr, s) as the three operations call it: the (n, err) it
\* returns is dropped, so every write is issued whatever the earlier ones
\* returned, and the operation ends as `end` ("returned", or "panic")
IssueWrites(wr, writes, end) ==
    [ calls |-> writes,
      errs |-> {wr.failAt} \cap (1..Len(writes)),
      ret |-> end ]

\* the bytes the writer holds: the writes it accepted
Accepted(calls, errs) ==
    Flatten([ i \in 1..Len(calls) |-> IF i \in errs THEN Empty ELSE calls[i] ])

(***************************************************************************)
(* WriteHTTPRequest and WriteHTTPResponse (write_helpers.go)               *)
(***************************************************************************)
\* "GET"
MethodGet == <<71, 69, 84>>

\* "/users"
PathUsers == <<47, 117, 115, 101, 114, 115>>

\* "10.0.0.1"
Addr10 == <<49, 48, 46, 48, 46, 48, 46, 49>>

\* "application/json"
ContentTypeJSON == <<97, 112, 112, 108, 105, 99, 97, 116, 105, 111, 110, 47, 106, 115, 111, 110>>

\* req.URL: a nil *url.URL, or one whose String() is s
NilURL == [ isNil |-> TRUE, s |-> Empty ]

URLOf(s) == [ isNil |-> FALSE, s |-> s ]

\* the *http.Request, as far as the helpers read it; Method "" is what a
\* client request built by hand carries for GET
Requests ==
    [ remoteAddr : {Empty, Addr10},
      Method : {MethodGet, Empty},
      URL : {NilURL, URLOf(PathUsers), URLOf(Empty)} ]

\* webutil.GetRemoteAddr(req)
GetRemoteAddr(req) == req.remoteAddr

RECURSIVE Itoa(_)
\* strconv.Itoa(n) for n >= 0
Itoa(n) == IF n < 10 THEN <<48 + n>> ELSE Itoa(n \div 10) \o <<48 + (n % 10)>>

\* ColorizeStatusCodeWithFormatter(tf, statusCode): the decimal status code,
\* coloured by its class
ColorizeStatusCodeWithFormatter(tf, statusCode) ==
    Colorize(tf, Itoa(statusCode),
             IF statusCode >= 200 /\ statusCode < 300 THEN ColorGreen
             ELSE IF statusCode >= 500 THEN ColorRed
             ELSE ColorYellow)

\* the fraction digits of a duration: three digits, trailing zeros dropped
Fraction(ms) ==
    IF ms % 100 = 0 THEN <<48 + (ms \div 100)>>
    ELSE IF ms % 10 = 0 THEN <<48 + (ms \div 100), 48 + ((ms \div 10) % 10)>>
    ELSE <<48 + (ms \div 100), 48 + ((ms \div 10) % 10), 48 + (ms % 10)>>

\* time.Duration.String() of a duration of `ms` whole milliseconds, below
\* one minute: "0s", "150ms", "2s", "1.5s"
DurationString(ms) ==
    IF ms = 0 THEN <<48, 115>>
    ELSE IF ms < 1000 THEN Itoa(ms) \o <<109, 115>>
    ELSE IF ms % 1000 = 0 THEN Itoa(ms \div 1000) \o <<115>>
    ELSE Itoa(ms \div 1000) \o <<46>> \o Fraction(ms % 1000) \o <<115>>

\* stringutil.FileSize(sizeBytes), for a size below one kilobyte: "42B"
FileSize(sizeBytes) == Itoa(sizeBytes) \o <<66>>

\* WriteHTTPRequest: the strings it hands to io.WriteString, in order
WriteHTTPRequest(tf, req) ==
    (IF Len(GetRemoteAddr(req)) > 0 THEN << GetRemoteAddr(req), Space >> ELSE << >>)
        \o << Colorize(tf, req.Method, ColorBlue) >>
        \o (IF ~req.URL.isNil THEN << Space, req.URL.s >> ELSE << >>)

\* WriteHTTPResponse with the space before the content type written whether
\* or not there is a content type
WriteHTTPResponseSpaced(tf, req, statusCode, contentLength, contentType, elapsed) ==
    (IF Len(GetRemoteAddr(req)) > 0 THEN << GetRemoteAddr(req), Space >> ELSE << >>)
        \o << Colorize(tf, req.Method, ColorBlue), Space >>
        \o (IF req.URL.isNil THEN << >>
            ELSE << req.URL.s, Space,
                    ColorizeStatusCodeWithFormatter(tf, statusCode), Space,
                    DurationString(elapsed), Space >>
                 \o (IF Len(contentType) > 0 THEN << contentType >> ELSE << >>)
                 \o << Space, FileSize(contentLength) >>)

\* WriteHTTPResponse: the strings it hands to io.WriteString, in order; on a
\* nil req.URL the call req.URL.String() panics after the writes before it
WriteHTTPResponse(tf, req, statusCode, contentLength, contentType, elapsed) ==
    (IF Len(GetRemoteAddr(req)) > 0 THEN << GetRemoteAddr(req), Space >> ELSE << >>)
        \o << Colorize(tf, req.Method, ColorBlue), Space >>
        \o (IF req.URL.isNil THEN << >>
            ELSE << req.URL.s, Space,
                    ColorizeStatusCodeWithFormatter(tf, statusCode), Space,
                    DurationString(elapsed) >>
                 \o (IF Len(contentType) > 0 THEN << Space, contentType >> ELSE << >>)
                 \o << Space, FileSize(contentLength) >>)

StatusCodes == { 200, 404, 500 }

\* sizes below one kilobyte
ContentLengths == { 0, 42, 512 }

\* durations, in milliseconds
Durations == { 0, 150, 1500 }

WriteCalls ==
    { [ op |-> "WriteText", tf |-> tf, wr |-> wr, e |-> e ] :
        tf \in TextFormatters, wr \in Writers, e \in AuditEvents } \cup
    { [ op |-> "WriteHTTPRequest", tf |-> tf, wr |-> wr, req |-> req ] :
        tf \in TextFormatters, wr \in Writers, req \in Requests } \cup
    [ op : {"WriteHTTPResponse"}, tf : TextFormatters, wr : Writers, req : Requests,
      statusCode : StatusCodes, contentLength : ContentLengths,
      contentType : {Empty, ContentTypeJSON}, elapsed : Durations ]

\* the call's writes reach the writer and the call ends
Finish(r) ==
    /\ wrCalls' = r.calls
    /\ wrErrs' = r.errs
    /\ wrRet' = r.ret
    /\ UNCHANGED <<wrCall, fmtVars, evVars, lsVars, rVars>>

CallWriteText ==
    /\ wrCall.op = "WriteText"
    /\ wrRet = "none"
    /\ \E order \in MapOrders(wrCall.e.Extra) :
        Finish(IssueWrites(wrCall.wr, WriteText(wrCall.e, wrCall.tf, order), "returned"))

CallWriteHTTPRequest ==
    /\ wrCall.op = "WriteHTTPRequest"
    /\ wrRet = "none"
    /\ Finish(IssueWrites(wrCall.wr, WriteHTTPRequest(wrCall.tf, wrCall.req), "returned"))

CallWriteHTTPResponse ==
    /\ wrCall.op = "WriteHTTPResponse"
    /\ wrRet = "none"
    /\ Finish(IssueWrites(wrCall.wr,
                          WriteHTTPResponse(wrCall.tf, wrCall.req, wrCall.statusCode,
                                            wrCall.contentLength, wrCall.contentType,
                                            wrCall.elapsed),
                          IF wrCall.req.URL.isNil THEN "panic" ELSE "returned"))

InitWrite ==
    /\ wrCall \in WriteCalls
    /\ wrCalls = <<>>
    /\ wrErrs = {}
    /\ wrRet = "none"
    /\ FormatIdle /\ AuditIdle /\ ListenerIdle /\ RenderIdle

NextWrite == CallWriteText \/ CallWriteHTTPRequest \/ CallWriteHTTPResponse

SpecWrite == InitWrite /\ [][NextWrite]_vars

\* the eight labelled fields of the event, in the order of the struct
FieldTable(e) ==
    << <<LabelContext, e.Context>>, <<LabelPrincipal, e.Principal>>,
       <<LabelVerb, e.Verb>>, <<LabelNoun, e.Noun>>,
       <<LabelSubject, e.Subject>>, <<LabelProperty, e.Property>>,
       <<LabelRemoteAddr, e.RemoteAddress>>, <<LabelUA, e.UserAgent>> >>

NonEmptyFields(e) == SelectSeq(FieldTable(e), LAMBDA p : Len(p[2]) > 0)

\* "Principal:alice Verb:login "
PrincipalAliceVerbLogin ==
    << 80, 114, 105, 110, 99, 105, 112, 97, 108, 58, 97, 108, 105, 99, 101, 32,
       86, 101, 114, 98, 58, 108, 111, 103, 105, 110, 32 >>

OnlyPrincipalAndVerb(e) ==
    /\ e.Principal = Alice /\ e.Verb = Login
    /\ e.Context = Empty /\ e.Noun = Empty /\ e.Subject = Empty
    /\ e.Property = Empty /\ e.RemoteAddress = Empty /\ e.UserAgent = Empty
    /\ MapLen(e.Extra) = 0

\* C3: WriteText issues, for each non-empty field in the order Context,
\* Principal, Verb, Noun, Subject, Property, Remote Addr, UA, the writes
\* "Label:", value, " "; nothing for an empty field; and the Extra tokens in
\* one last write, only when Extra is non-empty. Without colour, Principal
\* "alice" and Verb "login" alone give "Principal:alice Verb:login ".
C3_WriteTextFieldOrder ==
    (wrCall.op = "WriteText" /\ wrRet = "returned") =>
        LET e == wrCall.e
            tf == wrCall.tf
            ne == NonEmptyFields(e)
            n == Len(ne)
        IN  /\ Len(wrCalls) = 3 * n + (IF MapLen(e.Extra) > 0 THEN 1 ELSE 0)
            /\ \A j \in 1..n :
                /\ wrCalls[3 * j - 2] = Colorize(tf, ne[j][1], ColorGray)
                /\ wrCalls[3 * j - 1] = ne[j][2]
                /\ wrCalls[3 * j] = Space
            /\ MapLen(e.Extra) > 0 =>
                \E o \in Orders(DOMAIN e.Extra.m) :
                    wrCalls[3 * n + 1] =
                        Join([ i \in 1..Len(o) |->
                                Colorize(tf, o[i] \o Colon, ColorGray) \o e.Extra.m[o[i]] ],
                             Space)
            /\ (OnlyPrincipalAndVerb(e) /\ ~tf.color) =>
                /\ Flatten(wrCalls) = PrincipalAliceVerbLogin
                /\ wrErrs = {} => Accepted(wrCalls, wrErrs) = PrincipalAliceVerbLogin

\* an event with fields set, fields empty and two extras has been written
C3_Witness ==
    /\ wrCall.op = "WriteText"
    /\ wrRet = "returned"
    /\ wrCall.e.Principal = Alice
    /\ wrCall.e.Verb = Login
    /\ wrCall.e.Noun = Empty
    /\ wrCall.e.UserAgent # Empty
    /\ MapLen(wrCall.e.Extra) = 2
    /\ Len(wrCalls) = 10

\* the fields a request or response line is made of, in order
ExpectedFields(c) ==
    (IF c.req.remoteAddr # Empty THEN << c.req.remoteAddr >> ELSE << >>)
        \o << Colorize(c.tf, c.req.Method, ColorBlue) >>
        \o (IF c.req.URL.isNil THEN << >> ELSE << c.req.URL.s >>)
        \o (IF c.op = "WriteHTTPResponse"
            THEN << ColorizeStatusCodeWithFormatter(c.tf, c.statusCode),
                    DurationString(c.elapsed) >>
                 \o (IF c.contentType # Empty THEN << c.contentType >> ELSE << >>)
                 \o << FileSize(c.contentLength) >>
            ELSE << >>)

NoStraySpace(str) ==
    /\ str # <<>> => (Head(str) # 32 /\ str[Len(str)] # 32)
    /\ \A i \in 1..(Len(str) - 1) : ~(str[i] = 32 /\ str[i + 1] = 32)

\* "GET /users 200 150ms application/json 42B"
GetUsersLine ==
    << 71, 69, 84, 32, 47, 117, 115, 101, 114, 115, 32, 50, 48, 48, 32,
       49, 53, 48, 109, 115, 32, 97, 112, 112, 108, 105, 99, 97, 116, 105,
       111, 110, 47, 106, 115, 111, 110, 32, 52, 50, 66 >>

\* C4: WriteHTTPRequest and WriteHTTPResponse write remote address (if
\* present), method, URL, and for a response status code, elapsed, content
\* type (if present), size, with exactly one space write between two
\* adjacent fields and none before the first or after the last; GET /users,
\* 200, 42 bytes, application/json, 150ms, no remote address and no colour
\* gives "GET /users 200 150ms application/json 42B".
C4_HTTPLineFields ==
    (wrCall.op \in {"WriteHTTPRequest", "WriteHTTPResponse"} /\ wrRet = "returned") =>
        LET fields == ExpectedFields(wrCall)
        IN  /\ Len(wrCalls) = 2 * Len(fields) - 1
            /\ \A i \in 1..Len(fields) : wrCalls[2 * i - 1] = fields[i]
            /\ \A i \in 1..(Len(fields) - 1) : wrCalls[2 * i] = Space
            /\ (\A i \in 1..Len(fields) : fields[i] # Empty) =>
                NoStraySpace(Flatten(wrCalls))
            /\ ( /\ wrCall.op = "WriteHTTPResponse"
                 /\ ~wrCall.tf.color
                 /\ wrCall.req = [ remoteAddr |-> Empty, Method |-> MethodGet,
                                   URL |-> URLOf(PathUsers) ]
                 /\ wrCall.statusCode = 200 /\ wrCall.contentLength = 42
                 /\ wrCall.contentType = ContentTypeJSON /\ wrCall.elapsed = 150 ) =>
                Flatten(wrCalls) = GetUsersLine

\* a response line without remote address and without content type
C4_Witness ==
    /\ wrCall.op = "WriteHTTPResponse"
    /\ wrRet = "returned"
    /\ wrCall.req.remoteAddr = Empty
    /\ wrCall.req.Method = MethodGet
    /\ wrCall.contentType = Empty
    /\ Len(wrCalls) = 9

\* C6: a write that fails during WriteText, WriteHTTPRequest or
\* WriteHTTPResponse is surfaced to the caller of that operation.
C6_WriteErrorPropagated ==
    (wrRet # "none" /\ wrErrs # {}) => wrRet = "error"

(***************************************************************************)
(* encoding/json, as far as MarshalJSON uses it                            *)
(***************************************************************************)
\* a value of a map[string]interface{}: a string, or a map[string]string
StringValue(s) == [ kind |-> "string", s |-> s, mp |-> NilMap ]

MapValue(mp) == [ kind |-> "map", s |-> Empty, mp |-> mp ]

HexDigit(n) == IF n < 10 THEN 48 + n ELSE 87 + n

HexVal(c) == IF c <= 57 THEN c - 48 ELSE IF c >= 97 THEN c - 87 ELSE c - 55

\* the six bytes \u00XX
EscapeU(b) == << 92, 117, 48, 48, HexDigit(b \div 16), HexDigit(b % 16) >>

\* the escape of the Unicode replacement rune U+FFFD
EscapeReplacement == << 92, 117, 102, 102, 102, 100 >>

\* json.Marshal of one byte of a string that holds no multi-byte sequence:
\* '"' and '\' are escaped, '<', '>', '&' and control bytes are written as
\* \u00XX, a byte that is not valid UTF-8 becomes U+FFFD
EncodeByte(b) ==
    IF b = 34 THEN << 92, 34 >>
    ELSE IF b = 92 THEN << 92, 92 >>
    ELSE IF b = 10 THEN << 92, 110 >>
    ELSE IF b = 13 THEN << 92, 114 >>
    ELSE IF b = 9 THEN << 92, 116 >>
    ELSE IF b < 32 \/ b = 60 \/ b = 62 \/ b = 38 THEN EscapeU(b)
    ELSE IF b >= 128 THEN EscapeReplacement
    ELSE << b >>

\* the JSON string literal of a Go string
EncodeString(s) ==
    << 34 >> \o Flatten([ i \in 1..Len(s) |-> EncodeByte(s[i]) ]) \o << 34 >>

\* the UTF-8 bytes of a code point of the basic plane
UTF8(cp) ==
    IF cp < 128 THEN << cp >>
    ELSE IF cp < 2048 THEN << 192 + (cp \div 64), 128 + (cp % 64) >>
    ELSE << 224 + (cp \div 4096), 128 + ((cp \div 64) % 64), 128 + (cp % 64) >>

RECURSIVE Unescape(_)
Unescape(t) ==
    IF t = << >> THEN << >>
    ELSE IF t[1] # 92 THEN << t[1] >> \o Unescape(Tail(t))
    ELSE IF t[2] = 117
         THEN UTF8(4096 * HexVal(t[3]) + 256 * HexVal(t[4])
                     + 16 * HexVal(t[5]) + HexVal(t[6]))
                  \o Unescape(SubSeq(t, 7, Len(t)))
    ELSE << (IF t[2] = 110 THEN 10 ELSE IF t[2] = 114 THEN 13
             ELSE IF t[2] = 116 THEN 9 ELSE t[2]) >>
             \o Unescape(SubSeq(t, 3, Len(t)))

\* json.Unmarshal of a JSON string literal
DecodeString(lit) == Unescape(SubSeq(lit, 2, Len(lit) - 1))

\* the members of a JSON object, in the order json.Marshal writes a map: by
\* key; each member is the key's literal and the text of the value
JSONNull == [ kind |-> "null", lit |-> Empty, members |-> << >> ]

JSONString(s) == [ kind |-> "string", lit |-> EncodeString(s), members |-> << >> ]

JSONObject(members) == [ kind |-> "object", lit |-> Empty, members |-> members ]

RECURSIVE KeysOf(_)
\* the keys of a map, in some order
KeysOf(S) ==
    IF S = {} THEN << >>
    ELSE LET k == CHOOSE x \in S : TRUE IN << k >> \o KeysOf(S \ {k})

\* json.Marshal of a map[string]string: null when nil
MarshalStringMap(mp) ==
    IF mp.isNil THEN JSONNull
    ELSE LET keys == InsertionSort(KeysOf(DOMAIN mp.m))
         IN  JSONObject([ i \in 1..Len(keys) |->
                           [ key |-> EncodeString(keys[i]),
                             value |-> JSONString(mp.m[keys[i]]) ] ])

\* json.Marshal of a map[string]interface{}
Marshal(obj) ==
    LET keys == InsertionSort(KeysOf(DOMAIN obj))
    IN  JSONObject([ i \in 1..Len(keys) |->
                      [ key |-> EncodeString(keys[i]),
                        value |-> IF obj[keys[i]].kind = "string"
                                  THEN JSONString(obj[keys[i]].s)
                                  ELSE MarshalStringMap(obj[keys[i]].mp) ] ])

\* the keys of the members, decoded
MemberKeys(members) == { DecodeString(members[i].key) : i \in 1..Len(members) }

\* the last member with the key, as json.Unmarshal keeps it
LastMember(members, k) ==
    members[CHOOSE i \in 1..Len(members) :
                /\ DecodeString(members[i].key) = k
                /\ \A j \in (i + 1)..Len(members) : DecodeString(members[j].key) # k]

\* json.Unmarshal of a value whose members are strings
UnmarshalStringMap(v) ==
    IF v.kind = "null" THEN NilMap
    ELSE MapOf([ k \in MemberKeys(v.members) |->
                   DecodeString(LastMember(v.members, k).value.lit) ])

\* json.Unmarshal of the object into a map[string]interface{}
Unmarshal(doc) ==
    [ k \in MemberKeys(doc.members) |->
        LET v == LastMember(doc.members, k).value
        IN  IF v.kind = "string" THEN StringValue(DecodeString(v.lit))
            ELSE MapValue(UnmarshalStringMap(v)) ]

(***************************************************************************)
(* EventMeta, NewAuditEvent, the With* mutators and MarshalJSON            *)
(***************************************************************************)
\* "flag", "ts", "audit", "t0"
KeyFlag == <<102, 108, 97, 103>>

KeyTs == <<116, 115>>

FlagAudit == <<97, 117, 100, 105, 116>>

StampT0 == <<116, 48>>

\* "context" ... "extra"
KeyContext == <<99, 111, 110, 116, 101, 120, 116>>

KeyPrincipal == <<112, 114, 105, 110, 99, 105, 112, 97, 108>>

KeyVerb == <<118, 101, 114, 98>>

KeyNoun == <<110, 111, 117, 110>>

KeySubject == <<115, 117, 98, 106, 101, 99, 116>>

KeyProperty == <<112, 114, 111, 112, 101, 114, 116, 121>>

KeyRemoteAddr == <<114, 101, 109, 111, 116, 101, 65, 100, 100, 114>>

KeyUA == <<117, 97>>

KeyExtra == <<101, 120, 116, 114, 97>>

\* an EventMeta, given by the keys it decomposes to; the options may add a
\* key, and the last one adds a key named like an event key
EventMetas ==
    { (KeyFlag :> FlagAudit) @@ (KeyTs :> StampT0),
      (KeyFlag :> FlagAudit) @@ (KeyTs :> StampT0) @@ (KeyVerb :> StrX) }

\* NewEventMeta(Audit, options...)
NewEventMeta(options) == options

\* em.Decompose()
Decompose(em) == [ k \in DOMAIN em |-> StringValue(em[k]) ]

\* MergeDecomposed(a, b): the keys of both, b's value where both hold a key
MergeDecomposed(a, b) ==
    [ k \in DOMAIN a \cup DOMAIN b |-> IF k \in DOMAIN b THEN b[k] ELSE a[k] ]

\* "<&" and a quoted backslash: strings json.Marshal has to escape
StrEscaped == <<34, 92, 60>>

\* the arguments the callers pass
PrincipalArgs == {Empty, Alice, Login}

VerbArgs == {Empty, Login}

TextArgs == {Empty, StrX}

PropertyArgs == {Empty, StrEscaped}

UserAgentArgs == {Empty, StrX, StrBad}

\* NewAuditEvent(principal, verb, options...)
NewAuditEvent(principal, verb, options) ==
    [ EventMeta |-> NewEventMeta(options),
      Context |-> Empty,
      Principal |-> principal,
      Verb |-> verb,
      Noun |-> Empty,
      Subject |-> Empty,
      Property |-> Empty,
      RemoteAddress |-> Empty,
      UserAgent |-> Empty,
      Extra |-> NilMap ]

\* the mutators: the heap after the call, and the pointer returned
WithContext(heap, a, context) ==
    [ heap |-> [heap EXCEPT ![a].Context = context], ret |-> a ]

\* a WithPrincipal that appends to the field instead of replacing it
WithPrincipalAppending(heap, a, principal) ==
    [ heap |-> [heap EXCEPT ![a].Principal = heap[a].Principal \o principal], ret |-> a ]

WithPrincipal(heap, a, principal) ==
    [ heap |-> [heap EXCEPT ![a].Principal = principal], ret |-> a ]

WithVerb(heap, a, verb) ==
    [ heap |-> [heap EXCEPT ![a].Verb = verb], ret |-> a ]

WithNoun(heap, a, noun) ==
    [ heap |-> [heap EXCEPT ![a].Noun = noun], ret |-> a ]

WithSubject(heap, a, subject) ==
    [ heap |-> [heap EXCEPT ![a].Subject = subject], ret |-> a ]

WithProperty(heap, a, property) ==
    [ heap |-> [heap EXCEPT ![a].Property = property], ret |-> a ]

WithRemoteAddress(heap, a, remoteAddr) ==
    [ heap |-> [heap EXCEPT ![a].RemoteAddress = remoteAddr], ret |-> a ]

WithUserAgent(heap, a, userAgent) ==
    [ heap |-> [heap EXCEPT ![a].UserAgent = userAgent], ret |-> a ]

WithExtra(heap, a, extra) ==
    [ heap |-> [heap EXCEPT ![a].Extra = extra], ret |-> a ]

\* the event's own keys with remoteAddr and ua exchanged
EventKeysSwapped(e) ==
    (KeyContext :> StringValue(e.Context))
        @@ (KeyPrincipal :> StringValue(e.Principal))
        @@ (KeyVerb :> StringValue(e.Verb))
        @@ (KeyNoun :> StringValue(e.Noun))
        @@ (KeySubject :> StringValue(e.Subject))
        @@ (KeyProperty :> StringValue(e.Property))
        @@ (KeyRemoteAddr :> StringValue(e.UserAgent))
        @@ (KeyUA :> StringValue(e.RemoteAddress))
        @@ (KeyExtra :> MapValue(e.Extra))

\* map[string]interface{}{"context": e.Context, ..., "extra": e.Extra}
EventKeys(e) ==
    (KeyContext :> StringValue(e.Context))
        @@ (KeyPrincipal :> StringValue(e.Principal))
        @@ (KeyVerb :> StringValue(e.Verb))
        @@ (KeyNoun :> StringValue(e.Noun))
        @@ (KeySubject :> StringValue(e.Subject))
        @@ (KeyProperty :> StringValue(e.Property))
        @@ (KeyRemoteAddr :> StringValue(e.RemoteAddress))
        @@ (KeyUA :> StringValue(e.UserAgent))
        @@ (KeyExtra :> MapValue(e.Extra))

\* AuditEvent.MarshalJSON: the JSON text and the error
MarshalJSON(e) ==
    [ doc |-> Marshal(MergeDecomposed(Decompose(e.EventMeta), EventKeys(e))),
      err |-> "nil" ]

\* a mutator is called on the event at address 1
Mutate(r, field, arg) ==
    /\ ev' = r.heap
    /\ ret' = r.ret
    /\ hist' = [hist EXCEPT ![field] = arg]
    /\ jsonOut' = << >>
    /\ UNCHANGED <<fmtVars, wrVars, lsVars, rVars>>

CallWithContext == \E s \in TextArgs : Mutate(WithContext(ev, 1, s), "Context", s)

CallWithPrincipal == \E s \in PrincipalArgs : Mutate(WithPrincipal(ev, 1, s), "Principal", s)

CallWithVerb == \E s \in VerbArgs : Mutate(WithVerb(ev, 1, s), "Verb", s)

CallWithNoun == \E s \in TextArgs : Mutate(WithNoun(ev, 1, s), "Noun", s)

CallWithSubject == \E s \in TextArgs : Mutate(WithSubject(ev, 1, s), "Subject", s)

CallWithProperty == \E s \in PropertyArgs : Mutate(WithProperty(ev, 1, s), "Property", s)

CallWithRemoteAddress ==
    \E s \in TextArgs : Mutate(WithRemoteAddress(ev, 1, s), "RemoteAddress", s)

CallWithUserAgent == \E s \in UserAgentArgs : Mutate(WithUserAgent(ev, 1, s), "UserAgent", s)

CallWithExtra == \E x \in ExtraMaps : Mutate(WithExtra(ev, 1, x), "Extra", x)

CallMarshalJSON ==
    /\ jsonOut' = << MarshalJSON(ev[1]) >>
    /\ UNCHANGED <<ev, ret, hist, fmtVars, wrVars, lsVars, rVars>>

InitAudit ==
    /\ \E p \in PrincipalArgs, v \in VerbArgs, options \in EventMetas :
        /\ ev = << NewAuditEvent(p, v, options) >>
        /\ hist = NewAuditEvent(p, v, options)
    /\ ret = 0
    /\ jsonOut = << >>
    /\ FormatIdle /\ WriteIdle /\ ListenerIdle /\ RenderIdle

NextAudit ==
    \/ CallWithContext \/ CallWithPrincipal \/ CallWithVerb \/ CallWithNoun
    \/ CallWithSubject \/ CallWithProperty \/ CallWithRemoteAddress
    \/ CallWithUserAgent \/ CallWithExtra \/ CallMarshalJSON

SpecAudit == InitAudit /\ [][NextAudit]_vars

\* every byte is ASCII: the strings of the model that are valid UTF-8
ValidUTF8(s) == \A i \in 1..Len(s) : s[i] < 128

ValidValue(v) ==
    IF v.kind = "string" THEN ValidUTF8(v.s)
    ELSE v.mp.isNil \/ \A k \in DOMAIN v.mp.m : ValidUTF8(k) /\ ValidUTF8(v.mp.m[k])

NineKeys ==
    { KeyContext, KeyPrincipal, KeyVerb, KeyNoun, KeySubject, KeyProperty,
      KeyRemoteAddr, KeyUA, KeyExtra }

\* the value the event holds for one of its nine keys
FieldOfKey(e, k) ==
    IF k = KeyContext THEN StringValue(e.Context)
    ELSE IF k = KeyPrincipal THEN StringValue(e.Principal)
    ELSE IF k = KeyVerb THEN StringValue(e.Verb)
    ELSE IF k = KeyNoun THEN StringValue(e.Noun)
    ELSE IF k = KeySubject THEN StringValue(e.Subject)
    ELSE IF k = KeyProperty THEN StringValue(e.Property)
    ELSE IF k = KeyRemoteAddr THEN StringValue(e.RemoteAddress)
    ELSE IF k = KeyUA THEN StringValue(e.UserAgent)
    ELSE MapValue(e.Extra)

\* C7 as stated: decoding the output of MarshalJSON gives one flat object
\* holding the nine event keys with exactly the values of the event's
\* fields, and every EventMeta key that is not an event key.
C7_JSONRoundTripAll ==
    (jsonOut # << >>) =>
        LET e == ev[1]
            d == Unmarshal(jsonOut[1].doc)
        IN  /\ jsonOut[1].err = "nil"
            /\ DOMAIN d = NineKeys \cup DOMAIN e.EventMeta
            /\ \A k \in NineKeys : d[k] = FieldOfKey(e, k)
            /\ \A k \in DOMAIN e.EventMeta \ NineKeys : d[k] = StringValue(e.EventMeta[k])

\* C7, amended: the same, for the fields whose value is valid UTF-8.
C7_JSONRoundTripValidUTF8 ==
    (jsonOut # << >>) =>
        LET e == ev[1]
            d == Unmarshal(jsonOut[1].doc)
        IN  /\ jsonOut[1].err = "nil"
            /\ DOMAIN d = NineKeys \cup DOMAIN e.EventMeta
            /\ \A k \in NineKeys :
                ValidValue(FieldOfKey(e, k)) => d[k] = FieldOfKey(e, k)
            /\ \A k \in DOMAIN e.EventMeta \ NineKeys :
                ValidUTF8(e.EventMeta[k]) => d[k] = StringValue(e.EventMeta[k])

\* an event whose EventMeta also holds "verb", with a property that needs
\* escaping and two extras, has been marshalled
C7_Witness ==
    /\ jsonOut # << >>
    /\ KeyVerb \in DOMAIN ev[1].EventMeta
    /\ ev[1].Verb = Login
    /\ ev[1].Property = StrEscaped
    /\ ev[1].RemoteAddress = StrX
    /\ ev[1].UserAgent = Empty
    /\ MapLen(ev[1].Extra) = 2

\* C8: after NewAuditEvent(p, v) and any With* calls, every field holds the
\* argument of the last call for that field, or its constructor value; the
\* EventMeta is the constructor's; each call returned the event it was
\* called on, and no other event came to be.
C8_MutatorsReplaceOwnField ==
    /\ Len(ev) = 1
    /\ ev[1] = hist
    /\ ret \in {0, 1}

\* several fields set by With* calls, one of them back to empty
C8_Witness ==
    /\ ret = 1
    /\ ev[1].Context = StrX
    /\ ev[1].UserAgent = StrBad
    /\ ev[1].Principal = Login
    /\ MapLen(ev[1].Extra) = 2
    /\ ev[1].Noun = Empty

(***************************************************************************)
(* NewAuditEventListener                                                   *)
(***************************************************************************)
MaxDelivered == 3

\* the values of the interface Event that reach the listener: the dynamic
\* type and the pointer (0: nil); a nil interface has no dynamic type
DeliveredEvents ==
    { [ type |-> "*AuditEvent", ptr |-> 1 ],
      [ type |-> "*AuditEvent", ptr |-> 2 ],
      [ type |-> "*AuditEvent", ptr |-> 0 ],
      [ type |-> "*HTTPRequestEvent", ptr |-> 3 ],
      [ type |-> "*HTTPResponseEvent", ptr |-> 4 ],
      [ type |-> "nil", ptr |-> 0 ] }

Contexts == { "ctx1", "ctx2" }

\* a listener that hands every event to the callback, unchecked
ListenerUnchecked(calls, ctx, e) == Append(calls, << ctx, e >>)

\* the closure NewAuditEventListener(listener) returns, applied to (ctx, e):
\* the invocations of `listener` after it
Listener(calls, ctx, e) ==
    IF e.type = "*AuditEvent" THEN Append(calls, << ctx, e >>) ELSE calls

\* an event is delivered to the listener
Deliver ==
    /\ Len(delivered) < MaxDelivered
    /\ \E ctx \in Contexts, e \in DeliveredEvents :
        /\ delivered' = Append(delivered, << ctx, e >>)
        /\ cbCalls' = Listener(cbCalls, ctx, e)
    /\ UNCHANGED <<fmtVars, wrVars, evVars, rVars>>

InitListener ==
    /\ delivered = << >>
    /\ cbCalls = << >>
    /\ FormatIdle /\ WriteIdle /\ AuditIdle /\ RenderIdle

NextListener == Deliver

SpecListener == InitListener /\ [][NextListener]_vars

\* C5: the callback has been invoked exactly once, with the same context
\* and event, for each delivered *AuditEvent, in delivery order, and not at
\* all for the other events.
C5_CallbackOncePerAuditEvent ==
    cbCalls = SelectSeq(delivered, LAMBDA d : d[2].type = "*AuditEvent")

\* an audit event, then an event of another variant, then an audit event
C5_Witness ==
    /\ Len(delivered) = 3
    /\ delivered[1][2].type = "*AuditEvent"
    /\ delivered[2][2].type = "*HTTPRequestEvent"
    /\ delivered[3][2].type = "*AuditEvent"
    /\ delivered[1][1] # delivered[3][1]
    /\ Len(cbCalls) = 2

(***************************************************************************)
(* web.JSONResult.Render, which the two tests call                         *)
(***************************************************************************)
\* the text of a JSON value: compact, no space after ':' or ','
RECURSIVE JSONText(_)
JSONText(v) ==
    IF v.kind = "null" THEN << 110, 117, 108, 108 >>
    ELSE IF v.kind = "string" THEN v.lit
    ELSE << 123 >>
         \o Join([ i \in 1..Len(v.members) |->
                    v.members[i].key \o << 58 >> \o JSONText(v.members[i].value) ],
                 << 44 >>)
         \o << 125 >>

\* "foo", "bar"
StrFoo == <<102, 111, 111>>

StrBar == <<98, 97, 114>>

\* http.StatusOK, http.StatusBadRequest and others
RenderStatusCodes == { 200, 201, 400, 404, 500 }

\* map[string]interface{} responses with string values
Responses ==
    UNION { [ K -> { StringValue(StrBar), StringValue(StrEscaped), StringValue(Empty) } ] :
              K \in SUBSET { StrFoo, StrX } }

JSONResults == [ StatusCode : RenderStatusCodes, Response : Responses ]

\* jr := &JSONResult{StatusCode: http.StatusOK, Response: {"foo": "bar"}}
TestJSONResultRender ==
    [ StatusCode |-> 200, Response |-> (StrFoo :> StringValue(StrBar)) ]

\* jr := &JSONResult{StatusCode: http.StatusBadRequest, Response: {"foo": "bar"}}
TestJSONResultRenderStatusCode ==
    [ StatusCode |-> 400, Response |-> (StrFoo :> StringValue(StrBar)) ]

\* a Render that writes the body before it sets the status code
RenderBodyFirst(jr) ==
    LET body == JSONText(Marshal(jr.Response)) \o << 10 >>
    IN  [ log |-> << << "Write", body >>, << "WriteHeader", jr.StatusCode >> >>,
          status |-> jr.StatusCode, body |-> body, err |-> "nil" ]

\* jr.Render(ctx): the status code is set, then the compact JSON of the
\* response and a newline are written; the calls on the response writer,
\* the writer's status and buffer after them, and the error returned
Render(jr) ==
    LET body == JSONText(Marshal(jr.Response)) \o << 10 >>
    IN  [ log |-> << << "WriteHeader", jr.StatusCode >>, << "Write", body >> >>,
          status |-> jr.StatusCode, body |-> body, err |-> "nil" ]

CallRender ==
    /\ rRet = "none"
    /\ LET r == Render(rCall)
       IN  /\ rLog' = r.log
           /\ rStatus' = r.status
           /\ rBody' = r.body
           /\ rRet' = r.err
    /\ UNCHANGED <<rCall, fmtVars, wrVars, evVars, lsVars>>

\* w := NewMockResponseWriter(buf); r := NewCtx(w, NewMockRequest("GET", "/"))
InitRender ==
    /\ rCall \in JSONResults
    /\ rLog = << >>
    /\ rStatus = 0
    /\ rBody = << >>
    /\ rRet = "none"
    /\ FormatIdle /\ WriteIdle /\ AuditIdle /\ ListenerIdle

NextRender == CallRender

SpecRender == InitRender /\ [][NextRender]_vars

\* {"foo":"bar"} and a newline
FooBarLine == << 123, 34, 102, 111, 111, 34, 58, 34, 98, 97, 114, 34, 125, 10 >>

\* C9: Render returns no error, sets the writer's status code to the
\* result's StatusCode before any body byte is written, and writes exactly
\* the compact JSON of Response and one newline; the two tests' assertions.
C9_RenderStatusThenBody ==
    (rRet # "none") =>
        /\ rRet = "nil"
        /\ rStatus = rCall.StatusCode
        /\ Len(rLog) = 2
        /\ rLog[1] = << "WriteHeader", rCall.StatusCode >>
        /\ rLog[2][1] = "Write"
        /\ rBody = rLog[2][2]
        /\ rBody[Len(rBody)] = 10
        /\ \A i \in 1..(Len(rBody) - 1) : rBody[i] # 10
        /\ SubSeq(rBody, 1, Len(rBody) - 1) = JSONText(Marshal(rCall.Response))
        /\ rCall \in { TestJSONResultRender, TestJSONResultRenderStatusCode } =>
            rBody = FooBarLine

\* the second test has rendered
C9_Witness ==
    /\ rCall = TestJSONResultRenderStatusCode
    /\ rRet = "nil"
    /\ rStatus = 400
    /\ rBody = FooBarLine

====
